---- MODULE Spec2Model ----
(***************************************************************************)
(* Model of AuthorthipAnalysis.py: the AuthorshipVerifier class (n-gram    *)
(* authorship verification of two Twitter authors) and the way main()      *)
(* drives it.                                                              *)
(*                                                                         *)
(* Representation.                                                         *)
(*   - a text is a sequence of one-character strings;                      *)
(*   - a token is a non-empty sequence of word characters, an n-gram a     *)
(*     tuple of n tokens (nltk.ngrams yields tuples, also for n = 1);      *)
(*   - a dict is a function whose DOMAIN is its key set; a dict whose      *)
(*     iteration order is observed (score_dict) is a sequence of           *)
(*     <<key, value>> pairs in insertion order;                            *)
(*   - a Python float that results from dividing integers is the exact     *)
(*     rational <<numerator, denominator>> in lowest terms.  Rounding of   *)
(*     IEEE doubles is not modelled.                                       *)
(*   - the containers declared in the class body (lines 75-85) are class   *)
(*     attributes: one object shared by every instance.  An assignment     *)
(*     self.x = ... creates an instance attribute (author_names, client,   *)
(*     known_texts_for_compare_questioned_texts); self.x[k] = ... and      *)
(*     self.x.append(...) mutate the shared class attribute.               *)
(*   - the Twitter client is the corpus provider: get_users_tweets is      *)
(*     modelled by the sequence of tweet texts it returns for an author.   *)
(***************************************************************************)
EXTENDS Integers, Sequences, FiniteSets, TLC

\* ------------------------------------------------------------------ bounds

\* Most tweets the provider returns per author under Spec.
MaxTweets == 2
\* Most tweets the provider returns for the first author under SpecSplit.
MaxSplitTweets == 11
\* Most AuthorshipVerifier objects constructed in one process (SpecProcess).
MaxVerifiers == 2
\* Most analysis() calls made in one process (SpecProcess).
MaxAnalysisCalls == 2

\* --------------------------------------------------------- generic helpers

Range(s) == {s[i] : i \in DOMAIN s}

Max(a, b) == IF a >= b THEN a ELSE b

Min(a, b) == IF a <= b THEN a ELSE b

RECURSIVE GCD(_, _)
GCD(a, b) == IF b = 0 THEN a ELSE GCD(b, a % b)

\* Exact rationals <<n, d>> with d > 0, in lowest terms.
Rat(n, d) == LET g == GCD(n, d) IN IF g = 0 THEN <<0, 1>> ELSE <<n \div g, d \div g>>
RatAdd(x, y) == Rat(x[1] * y[2] + y[1] * x[2], x[2] * y[2])
RatMul(x, y) == Rat(x[1] * y[1], x[2] * y[2])
\* x / y for y > 0
RatDiv(x, y) == Rat(x[1] * y[2], x[2] * y[1])
RatInt(n) == <<n, 1>>
RatLess(x, y) == x[1] * y[2] < y[1] * x[2]

\* dict.get(k, 0) without inserting.
Get(d, k) == IF k \in DOMAIN d THEN d[k] ELSE 0

\* d[k] on a collections.defaultdict(int): a missing key is inserted with 0.
Touch(d, k) == IF k \in DOMAIN d THEN d ELSE d @@ (k :> 0)

\* d[k] on a collections.defaultdict(float): a missing key is inserted with 0.0.
TouchRate(d, k) == IF k \in DOMAIN d THEN d ELSE d @@ (k :> RatInt(0))

\* d[k] += 1 on a collections.defaultdict(int).
Incr(d, k) == IF k \in DOMAIN d THEN [d EXCEPT ![k] = @ + 1] ELSE d @@ (k :> 1)

\* sum(d.values())
RECURSIVE SumValues(_)
SumValues(d) ==
    IF DOMAIN d = {} THEN 0
    ELSE LET k == CHOOSE x \in DOMAIN d : TRUE
         IN d[k] + SumValues([x \in DOMAIN d \ {k} |-> d[x]])

\* The number of occurrences of x in the sequence s.
Occurrences(s, x) == Cardinality({i \in DOMAIN s : s[i] = x})

\* Variant of random_sample that draws with replacement; C9 must tell the two
\* apart.
random_sample_replacing(population, k) == [1..k -> Range(population)]

\* random.sample(population, k), k <= len(population): k elements at k distinct
\* positions, in any order.  As values these are exactly the sequences of length
\* k that use no element more often than the population holds it.
random_sample(population, k) ==
    {s \in [1..k -> Range(population)] :
        \A x \in Range(population) : Occurrences(s, x) <= Occurrences(population, x)}

\* ------------------------------------------------------------------- texts

\* The characters matched by \w among those the modelled tweets use.
WordChars == {"a", "b", "c", "h", "t", "p", "s"}
\* The characters matched by \s among those the modelled tweets use.
SpaceChars == {" "}

\* "http:" or "https:" starts at position i of t.
UrlSchemeAt(t, i) ==
    /\ i + 4 <= Len(t)
    /\ t[i] = "h" /\ t[i + 1] = "t" /\ t[i + 2] = "t" /\ t[i + 3] = "p"
    /\ \/ t[i + 4] = ":"
       \/ i + 5 <= Len(t) /\ t[i + 4] = "s" /\ t[i + 5] = ":"

\* Positions i..j of t hold no whitespace.
NoSpace(t, i, j) == \A k \in i..j : t[k] \notin SpaceChars

\* Position i lies in a maximal whitespace-free run of t that holds a URL scheme:
\* the substrings re.sub(r"\S*https?:\S*", "", t) removes are exactly these runs.
InUrlRun(t, i) ==
    /\ t[i] \notin SpaceChars
    /\ \E j \in 1..Len(t) :
          UrlSchemeAt(t, j) /\ NoSpace(t, Min(i, j), Max(i, j))

RECURSIVE KeepFrom(_, _)
KeepFrom(t, i) ==
    IF i > Len(t) THEN <<>>
    ELSE IF InUrlRun(t, i) THEN KeepFrom(t, i + 1)
    ELSE <<t[i]>> \o KeepFrom(t, i + 1)

\* re.sub(r"\S*https?:\S*", "", text)
remove_url(text) == KeepFrom(text, 1)

\* Left-to-right scan for the maximal runs of word characters.
RECURSIVE Scan(_, _, _, _)
Scan(text, i, run, acc) ==
    IF i > Len(text) THEN (IF run = <<>> THEN acc ELSE Append(acc, run))
    ELSE IF text[i] \in WordChars THEN Scan(text, i + 1, Append(run, text[i]), acc)
    ELSE Scan(text, i + 1, <<>>, IF run = <<>> THEN acc ELSE Append(acc, run))

\* nltk.tokenize.RegexpTokenizer(r'\w+').tokenize(original_text)
get_tokenized_text(original_text) == Scan(original_text, 1, <<>>, <<>>)

\* list(nltk.ngrams(tokens, n)): the windows of n consecutive tokens, in order.
ngrams(tokens, n) ==
    [i \in 1..Max(0, Len(tokens) - n + 1) |-> SubSeq(tokens, i, i + n - 1)]

\* ------------------------------------------------------------------- state

VARIABLES
    pc,                                   \* the method the process runs next
    self,                                 \* the verifier whose method is running
    verifiers,                            \* the AuthorshipVerifier objects constructed so far
    tweet_texts_by_author,                \* class attribute, line 77
    known_texts_by_author,                \* class attribute, line 78
    questioned_texts_by_author,           \* class attribute, line 79
    ngram_count_by_author,                \* class attribute, line 80
    each_word_occurrence_rate_by_author,  \* class attribute, line 81
    questioned_texts_analysis_result,     \* class attribute, line 82
    raised,                               \* the uncaught exception <<type, line>>, <<"", 0>> if none
    stdout,                               \* what the report functions have printed
    score_log,                            \* the score_dict of every text scored by the running analysis()
    calls                                 \* analysis() calls started; the verifier and len(result list) of the last

vars == <<pc, self, verifiers, tweet_texts_by_author, known_texts_by_author,
          questioned_texts_by_author, ngram_count_by_author,
          each_word_occurrence_rate_by_author, questioned_texts_analysis_result,
          raised, stdout, score_log, calls>>

\* d[k] = v
Put(d, k, v) == [x \in DOMAIN d \cup {k} |-> IF x = k THEN v ELSE d[x]]

\* The class attribute ngram_numbers, line 85.
ngram_numbers == <<1, 2, 3>>

NoException == <<"", 0>>

\* The state when the module has been imported: the class body has run
\* (lines 75-85) and no verifier exists.
Init ==
    /\ pc = "main"
    /\ self = 0
    /\ verifiers = <<>>
    /\ tweet_texts_by_author = <<>>
    /\ known_texts_by_author = <<>>
    /\ questioned_texts_by_author = <<>>
    /\ ngram_count_by_author = <<>>
    /\ each_word_occurrence_rate_by_author = <<>>
    /\ questioned_texts_analysis_result = <<>>
    /\ raised = NoException
    /\ stdout = [questioned_cnt |-> <<>>, same_author |-> <<>>, accuracy |-> <<>>]
    /\ score_log = <<>>
    /\ calls = [started |-> 0, verifier |-> 0, base |-> 0]

\* ------------------------------------------------------------ construction

\* [remove_url(t) for t in tweets]
RemoveUrls(tweets) == [i \in DOMAIN tweets |-> remove_url(tweets[i])]

\* self.tweet_texts_by_author[author_name].append(...) for every tweet of every
\* page: the class-level defaultdict keeps what an earlier verifier appended.
RECURSIVE AppendTweets(_, _, _, _)
AppendTweets(d, names, tweets, k) ==
    IF k > Len(names) THEN d
    ELSE LET a == names[k]
             old == IF a \in DOMAIN d THEN d[a] ELSE <<>>
         IN AppendTweets(Put(d, a, old \o RemoveUrls(tweets[k])), names, tweets, k + 1)

\* __init__ up to and including create_tweet_texts_by_author (lines 98-101,
\* 115-135).  pairs: the username pairs the caller may pass; fetch1, fetch2: the
\* tweet sequences the client may return for the first and the second author.
create_tweet_texts_by_author(pairs, fetch1, fetch2, maxVerifiers) ==
    /\ pc = "main"
    /\ Len(verifiers) < maxVerifiers
    /\ \E names \in pairs, t1 \in fetch1, t2 \in fetch2 :
          /\ verifiers' = Append(verifiers,
                [author_names |-> names,
                 known_texts_for_compare_questioned_texts |-> <<>>])
          /\ tweet_texts_by_author' =
                AppendTweets(tweet_texts_by_author, names, <<t1, t2>>, 1)
    /\ self' = Len(verifiers) + 1
    /\ pc' = "divide_questioned_texts_and_known_texts"
    /\ UNCHANGED <<known_texts_by_author, questioned_texts_by_author,
                   ngram_count_by_author, each_word_occurrence_rate_by_author,
                   questioned_texts_analysis_result, raised, stdout, score_log, calls>>

\* Variant of known_text_count that rounds 0.9 * n to the nearest integer; C4
\* must tell the two apart.
known_text_count_rounded(n) == (9 * n + 5) \div 10

\* Variant of questioned_slice that loses the first questioned text; C3 must
\* tell the two apart.
questioned_slice_short(shuffled, cnt) == SubSeq(shuffled, cnt + 2, Len(shuffled))

\* int(n * 0.9): the double nearest 0.9 lies above 9/10 by less than 3e-17, so
\* the product truncates to floor(9n/10) for every n a timeline can reach.
known_text_count(n) == (9 * n) \div 10

\* shuffled_tweet_texts[:known_text_count]
known_slice(shuffled, cnt) == SubSeq(shuffled, 1, cnt)

\* shuffled_tweet_texts[known_text_count:]
questioned_slice(shuffled, cnt) == SubSeq(shuffled, cnt + 1, Len(shuffled))

\* divide_questioned_texts_and_known_texts, lines 147-157.
divide_questioned_texts_and_known_texts ==
    /\ pc = "divide_questioned_texts_and_known_texts"
    /\ LET names == verifiers[self].author_names
           t1 == tweet_texts_by_author[names[1]]
           t2 == tweet_texts_by_author[names[2]]
       IN \E s1 \in random_sample(t1, Len(t1)), s2 \in random_sample(t2, Len(t2)) :
             LET c1 == known_text_count(Len(s1))
                 c2 == known_text_count(Len(s2))
             IN /\ known_texts_by_author' =
                      Put(Put(known_texts_by_author, names[1], known_slice(s1, c1)),
                          names[2], known_slice(s2, c2))
                /\ questioned_texts_by_author' =
                      Put(Put(questioned_texts_by_author, names[1], questioned_slice(s1, c1)),
                          names[2], questioned_slice(s2, c2))
    /\ pc' = "create_ngram_count_by_author"
    /\ UNCHANGED <<self, verifiers, tweet_texts_by_author, ngram_count_by_author,
                   each_word_occurrence_rate_by_author,
                   questioned_texts_analysis_result, raised, stdout, score_log, calls>>

\* for ngram in nltk.ngrams(tokenized_text, n): table[ngram] += 1
RECURSIVE CountNgrams(_, _, _)
CountNgrams(table, grams, i) ==
    IF i > Len(grams) THEN table
    ELSE CountNgrams(Incr(table, grams[i]), grams, i + 1)

\* for known_text in texts: count the n-grams of its own tokenization
RECURSIVE CountTexts(_, _, _, _)
CountTexts(table, texts, n, j) ==
    IF j > Len(texts) THEN table
    ELSE CountTexts(CountNgrams(table, ngrams(get_tokenized_text(texts[j]), n), 1),
                    texts, n, j + 1)

\* Variant of model_texts that counts the questioned texts too; C6 must tell
\* the two apart.
model_texts_all(author_name) == tweet_texts_by_author[author_name]

\* The texts an author's tables are counted from, line 179.
model_texts(author_name) == known_texts_by_author[author_name]

\* The dict built for one author, lines 174-182.
NgramCount(author_name) ==
    [k \in DOMAIN ngram_numbers |->
        CountTexts(<<>>, model_texts(author_name), ngram_numbers[k], 1)]

\* create_ngram_count_by_author, lines 173-182.
create_ngram_count_by_author ==
    /\ pc = "create_ngram_count_by_author"
    /\ LET names == verifiers[self].author_names
       IN ngram_count_by_author' =
             Put(Put(ngram_count_by_author, names[1], NgramCount(names[1])),
                 names[2], NgramCount(names[2]))
    /\ pc' = "create_each_word_occurrence_rate_by_author"
    /\ UNCHANGED <<self, verifiers, tweet_texts_by_author, known_texts_by_author,
                   questioned_texts_by_author, each_word_occurrence_rate_by_author,
                   questioned_texts_analysis_result, raised, stdout, score_log, calls>>

\* word_count_sum, line 197.
word_count_sum(author_name) == SumValues(ngram_count_by_author[author_name][1])

\* The dict built for one author, lines 195-201.  Every key of the unigram table
\* was counted at least once, so word_count_sum is positive where a key exists.
OccurrenceRate(author_name) ==
    [word \in DOMAIN ngram_count_by_author[author_name][1] |->
        Rat(ngram_count_by_author[author_name][1][word], word_count_sum(author_name))]

\* create_each_word_occurrence_rate_by_author, lines 194-201; __init__ returns.
create_each_word_occurrence_rate_by_author ==
    /\ pc = "create_each_word_occurrence_rate_by_author"
    /\ LET names == verifiers[self].author_names
       IN each_word_occurrence_rate_by_author' =
             Put(Put(each_word_occurrence_rate_by_author, names[1], OccurrenceRate(names[1])),
                 names[2], OccurrenceRate(names[2]))
    /\ pc' = "main"
    /\ self' = 0
    /\ UNCHANGED <<verifiers, tweet_texts_by_author, known_texts_by_author,
                   questioned_texts_by_author, ngram_count_by_author,
                   questioned_texts_analysis_result, raised, stdout, score_log, calls>>

\* ---------------------------------------------------------------- analysis

\* math.pow(50, n - 1)
RECURSIVE Pow50(_)
Pow50(n) == IF n <= 1 THEN 1 ELSE 50 * Pow50(n - 1)

\* score_dict[key] += delta on a collections.defaultdict(int): a new key is
\* inserted behind the keys the dict holds.
ScoreAdd(sd, key, delta) ==
    IF \E i \in DOMAIN sd : sd[i][1] = key
    THEN [i \in DOMAIN sd |->
            IF sd[i][1] = key THEN <<key, RatAdd(sd[i][2], delta)>> ELSE sd[i]]
    ELSE Append(sd, <<key, delta>>)

\* score_dict[key], read only where the key is known to be present or absent
\* alike: 0 for a missing key.
ScoreOf(sd, key) ==
    IF \E i \in DOMAIN sd : sd[i][1] = key
    THEN sd[CHOOSE i \in DOMAIN sd : sd[i][1] = key][2]
    ELSE RatInt(0)

\* Line 235 for one n-gram: for known_author_name in self.author_names.  The
\* lookup in the defaultdict table inserts a missing n-gram with count 0.
RECURSIVE AddNgramScores(_, _, _, _, _)
AddNgramScores(st, names, n, ngram, k) ==
    IF k > Len(names) THEN st
    ELSE LET a == names[k]
             table == Touch(st.counts[a][n], ngram)
         IN AddNgramScores(
                [st EXCEPT !.counts[a][n] = table,
                           !.sd = ScoreAdd(st.sd, a, RatInt(table[ngram] * Pow50(n)))],
                names, n, ngram, k + 1)

\* Line 233: for ngram in nltk.ngrams(tokenized_text, n).
RECURSIVE ScanNgrams(_, _, _, _, _)
ScanNgrams(st, names, n, grams, i) ==
    IF i > Len(grams) THEN st
    ELSE ScanNgrams(AddNgramScores(st, names, n, grams[i], 1), names, n, grams, i + 1)

\* Line 232: for n in self.ngram_numbers.
RECURSIVE ScanNumbers(_, _, _, _)
ScanNumbers(st, names, tokens, j) ==
    IF j > Len(ngram_numbers) THEN st
    ELSE ScanNumbers(
            ScanNgrams(st, names, ngram_numbers[j], ngrams(tokens, ngram_numbers[j]), 1),
            names, tokens, j + 1)

\* Variant of adjusted_author that divides the second author's score; C1 must
\* tell the two apart.
adjusted_author_second(names) == names[2]

\* Lines 238-242 when neither division raises: the score of the author the
\* adjustment applies to is divided by total_word_count_ratio.
adjusted_author(names) == names[1]

Adjust(st, names, total1, total2) ==
    LET a == adjusted_author(names)
    IN [st EXCEPT !.sd = IF \E i \in DOMAIN st.sd : st.sd[i][1] = a
                         THEN [i \in DOMAIN st.sd |->
                                 IF st.sd[i][1] = a
                                 THEN <<a, RatDiv(st.sd[i][2], Rat(total1, total2))>>
                                 ELSE st.sd[i]]
                         ELSE Append(st.sd, <<a, RatDiv(RatInt(0), Rat(total1, total2))>>)]

\* The weight of an occurrence rate, line 246.
RateWeight == 100000

\* Line 245-246 for one author: for word in nltk.ngrams(tokenized_text, 1).  The
\* lookup in the defaultdict table inserts a missing word with rate 0.0.
RECURSIVE AddWordScores(_, _, _, _)
AddWordScores(st, a, words, i) ==
    IF i > Len(words) THEN st
    ELSE LET table == TouchRate(st.rates[a], words[i])
         IN AddWordScores(
                [st EXCEPT !.rates[a] = table,
                           !.sd = ScoreAdd(st.sd, a, RatMul(table[words[i]], RatInt(RateWeight)))],
                a, words, i + 1)

\* Line 244: for known_author_name in self.author_names.
RECURSIVE ScanAuthors(_, _, _, _)
ScanAuthors(st, names, words, k) ==
    IF k > Len(names) THEN st
    ELSE ScanAuthors(AddWordScores(st, names[k], words, 1), names, words, k + 1)

\* Variant of result_author that returns the last item no item exceeds; C2
\* must tell the two apart.
result_author_last(sd) ==
    LET i == CHOOSE i \in DOMAIN sd :
                /\ \A j \in DOMAIN sd : ~RatLess(sd[i][2], sd[j][2])
                /\ \A j \in (i + 1)..Len(sd) : RatLess(sd[j][2], sd[i][2])
    IN sd[i][1]

\* Variant of result_author that returns the first item of the least score; C5
\* must tell the two apart.
result_author_least(sd) ==
    LET i == CHOOSE i \in DOMAIN sd :
                /\ \A j \in DOMAIN sd : ~RatLess(sd[j][2], sd[i][2])
                /\ \A j \in 1..(i - 1) : RatLess(sd[i][2], sd[j][2])
    IN sd[i][1]

\* max(score_dict.items(), key = lambda score_info: score_info[1])[0]: the first
\* item, in insertion order, whose score no item exceeds.
result_author(sd) ==
    LET i == CHOOSE i \in DOMAIN sd :
                /\ \A j \in DOMAIN sd : ~RatLess(sd[i][2], sd[j][2])
                /\ \A j \in 1..(i - 1) : RatLess(sd[j][2], sd[i][2])
    IN sd[i][1]

\* Variant of ratio_error for a ratio computed in floating point throughout,
\* where a zero second total gives an infinite ratio and no exception; C7 must
\* tell the two apart.
ratio_error_unchecked(total1, total2) ==
    IF total1 = 0 THEN <<"ZeroDivisionError", 242>> ELSE NoException

\* The exception of lines 241-242: line 241 divides two ints and raises for a
\* zero divisor; line 242 divides by the float ratio and raises when it is 0.0.
ratio_error(total1, total2) ==
    IF total2 = 0 THEN <<"ZeroDivisionError", 241>>
    ELSE IF total1 = 0 THEN <<"ZeroDivisionError", 242>>
    ELSE NoException

\* Lines 230-254 for one questioned text, from the tables in st.
ScoreText(st, names, question_author_name, questioned_text) ==
    LET tokenized_text == get_tokenized_text(questioned_text)
        s1 == ScanNumbers([st EXCEPT !.sd = <<>>], names, tokenized_text, 1)
        total1 == SumValues(s1.counts[names[1]][1])
        total2 == SumValues(s1.counts[names[2]][1])
    IN IF ratio_error(total1, total2) # NoException
       THEN [s1 EXCEPT !.raised = ratio_error(total1, total2)]
       ELSE LET s2 == ScanAuthors(Adjust(s1, names, total1, total2), names,
                                  ngrams(tokenized_text, 1), 1)
                who == result_author(s2.sd)
            IN [s2 EXCEPT
                  !.results = Append(@, <<who, questioned_text, who = question_author_name>>),
                  !.log = Append(@, [author |-> question_author_name,
                                     text |-> questioned_text, score_dict |-> s2.sd])]

\* Line 229: for questioned_text in self.questioned_texts_by_author[...]; an
\* exception ends the loops.
RECURSIVE ScanTexts(_, _, _, _, _)
ScanTexts(st, names, question_author_name, texts, i) ==
    IF i > Len(texts) \/ st.raised # NoException THEN st
    ELSE ScanTexts(ScoreText(st, names, question_author_name, texts[i]),
                   names, question_author_name, texts, i + 1)

\* Line 228: for question_author_name in self.author_names.
RECURSIVE ScanQuestionAuthors(_, _, _)
ScanQuestionAuthors(st, names, k) ==
    IF k > Len(names) \/ st.raised # NoException THEN st
    ELSE ScanQuestionAuthors(
            ScanTexts(st, names, names[k], questioned_texts_by_author[names[k]], 1),
            names, k + 1)

\* analysis() up to the return of create_questioned_texts_analysis_result
\* (lines 208, 228-254), called on verifier v.
create_questioned_texts_analysis_result(maxCalls) ==
    /\ pc = "main"
    /\ calls.started < maxCalls
    /\ \E v \in DOMAIN verifiers :
          \E st \in {ScanQuestionAuthors(
                        [counts |-> ngram_count_by_author,
                         rates |-> each_word_occurrence_rate_by_author,
                         results |-> questioned_texts_analysis_result,
                         sd |-> <<>>, log |-> <<>>, raised |-> NoException],
                        verifiers[v].author_names, 1)} :
             /\ self' = v
             /\ ngram_count_by_author' = st.counts
             /\ each_word_occurrence_rate_by_author' = st.rates
             /\ questioned_texts_analysis_result' = st.results
             /\ score_log' = st.log
             /\ raised' = st.raised
             /\ pc' = IF st.raised = NoException
                      THEN "create_known_texts_for_compare_questioned_texts"
                      ELSE "raised"
             /\ calls' = [started |-> calls.started + 1, verifier |-> v,
                          base |-> Len(questioned_texts_analysis_result)]
    /\ UNCHANGED <<verifiers, tweet_texts_by_author, known_texts_by_author,
                   questioned_texts_by_author, stdout>>

\* list of (author_name, known_text), lines 261-265.
known_texts_info(names) ==
    [i \in 1..Len(known_texts_by_author[names[1]]) |->
        <<names[1], known_texts_by_author[names[1]][i]>>]
    \o [i \in 1..Len(known_texts_by_author[names[2]]) |->
        <<names[2], known_texts_by_author[names[2]][i]>>]

\* sum(len(questioned_texts) for questioned_texts in
\*     self.questioned_texts_by_author.values()), lines 267, 276, 320.
RECURSIVE SumLens(_)
SumLens(d) ==
    IF DOMAIN d = {} THEN 0
    ELSE LET k == CHOOSE x \in DOMAIN d : TRUE
         IN Len(d[k]) + SumLens([x \in DOMAIN d \ {k} |-> d[x]])

total_questioned_text_cnt == SumLens(questioned_texts_by_author)

\* create_known_texts_for_compare_questioned_texts, lines 261-269.  random.sample
\* raises ValueError for a sample larger than the population.
create_known_texts_for_compare_questioned_texts ==
    /\ pc = "create_known_texts_for_compare_questioned_texts"
    /\ LET info == known_texts_info(verifiers[self].author_names)
       IN IF total_questioned_text_cnt > Len(info)
          THEN /\ raised' = <<"ValueError", 269>>
               /\ pc' = "raised"
               /\ UNCHANGED verifiers
          ELSE /\ \E s \in random_sample(info, total_questioned_text_cnt) :
                     verifiers' = [verifiers EXCEPT
                        ![self].known_texts_for_compare_questioned_texts = s]
               /\ pc' = "compare_author_of_questioned_text_and_known_text"
               /\ UNCHANGED raised
    /\ UNCHANGED <<self, tweet_texts_by_author, known_texts_by_author,
                   questioned_texts_by_author, ngram_count_by_author,
                   each_word_occurrence_rate_by_author,
                   questioned_texts_analysis_result, stdout, score_log, calls>>

\* same_author_count after the loop of lines 283-311 over range(cnt).
same_author_count(known, result, cnt) ==
    Cardinality({i \in 1..cnt : known[i][1] = result[i][1]})

\* compare_author_of_questioned_text_and_known_text, lines 276-313.  Line 279
\* prints the count first; line 285 indexes the class-level result list and
\* raises IndexError when it is shorter than the count.
compare_author_of_questioned_text_and_known_text ==
    /\ pc = "compare_author_of_questioned_text_and_known_text"
    /\ LET cnt == total_questioned_text_cnt
           known == verifiers[self].known_texts_for_compare_questioned_texts
           result == questioned_texts_analysis_result
       IN IF Len(known) < cnt
          THEN /\ raised' = <<"IndexError", 284>>
               /\ pc' = "raised"
               /\ stdout' = [stdout EXCEPT !.questioned_cnt = Append(@, cnt)]
          ELSE IF Len(result) < cnt
          THEN /\ raised' = <<"IndexError", 285>>
               /\ pc' = "raised"
               /\ stdout' = [stdout EXCEPT !.questioned_cnt = Append(@, cnt)]
          ELSE /\ stdout' = [stdout EXCEPT
                                !.questioned_cnt = Append(@, cnt),
                                !.same_author = Append(@, same_author_count(known, result, cnt))]
               /\ pc' = "print_accuracy"
               /\ UNCHANGED raised
    /\ UNCHANGED <<self, verifiers, tweet_texts_by_author, known_texts_by_author,
                   questioned_texts_by_author, ngram_count_by_author,
                   each_word_occurrence_rate_by_author,
                   questioned_texts_analysis_result, score_log, calls>>

\* correct_author_cnt, line 321.
correct_author_cnt ==
    Cardinality({i \in DOMAIN questioned_texts_analysis_result :
                    questioned_texts_analysis_result[i][3]})

\* print_accuracy, lines 320-323; analysis() returns.  The printed value is kept
\* as the pair <<correct_author_cnt, total_questioned_text_cnt>> it is computed
\* from: correct / total * 100.
print_accuracy ==
    /\ pc = "print_accuracy"
    /\ IF total_questioned_text_cnt = 0
       THEN /\ raised' = <<"ZeroDivisionError", 323>>
            /\ pc' = "raised"
            /\ UNCHANGED <<stdout, self>>
       ELSE /\ stdout' = [stdout EXCEPT
                  !.accuracy = Append(@, <<correct_author_cnt, total_questioned_text_cnt>>)]
            /\ pc' = "main"
            /\ self' = 0
            /\ UNCHANGED raised
    /\ UNCHANGED <<verifiers, tweet_texts_by_author, known_texts_by_author,
                   questioned_texts_by_author, ngram_count_by_author,
                   each_word_occurrence_rate_by_author,
                   questioned_texts_analysis_result, score_log, calls>>

\* ------------------------------------------------------------ specifications

\* Tweets as the client returns them.
TweetABA == <<"a", " ", "b", " ", "a">>
TweetC == <<"c">>
TweetUrl == <<"h", "t", "t", "p", "s", ":", "b">>

\* The timelines of at most n tweets drawn from the list tweets.  A timeline is
\* shuffled before anything reads it, so one order of every multiset is listed.
TimelinesOf(tweets, n) ==
    UNION {{[i \in 1..k |-> tweets[f[i]]] :
              f \in {g \in [1..k -> DOMAIN tweets] :
                        \A i \in 1..(k - 1) : g[i] <= g[i + 1]}} : k \in 0..n}

\* main(): the two usernames of the command line, one verifier, one analysis().
Usernames == {<<"A", "B">>}
TweetB == <<"b">>
Timelines == TimelinesOf(<<TweetABA, TweetC, TweetUrl, TweetB>>, MaxTweets)

Next ==
    \/ create_tweet_texts_by_author(Usernames, Timelines, Timelines, 1)
    \/ divide_questioned_texts_and_known_texts
    \/ create_ngram_count_by_author
    \/ create_each_word_occurrence_rate_by_author
    \/ create_questioned_texts_analysis_result(1)
    \/ create_known_texts_for_compare_questioned_texts
    \/ compare_author_of_questioned_text_and_known_text
    \/ print_accuracy

Spec == Init /\ [][Next]_vars

\* main() on long timelines: the first author has up to MaxSplitTweets tweets,
\* all "c" but at most one; the second author has a short timeline.
LongTimelines ==
    {[i \in 1..n |-> IF i <= j THEN TweetABA ELSE TweetC] :
        n \in 0..MaxSplitTweets, j \in 0..1}
ShortTimelines == {<<>>, <<TweetC>>, <<TweetABA, TweetC>>}

NextSplit ==
    \/ create_tweet_texts_by_author(Usernames, LongTimelines, ShortTimelines, 1)
    \/ divide_questioned_texts_and_known_texts
    \/ create_ngram_count_by_author
    \/ create_each_word_occurrence_rate_by_author
    \/ create_questioned_texts_analysis_result(1)
    \/ create_known_texts_for_compare_questioned_texts
    \/ compare_author_of_questioned_text_and_known_text
    \/ print_accuracy

SpecSplit == Init /\ [][NextSplit]_vars

\* A process that uses the class as a library: it constructs up to MaxVerifiers
\* verifiers and calls analysis() up to MaxAnalysisCalls times, in any order.
ProcessUsernames == {<<"A", "B">>, <<"A", "C">>}
ProcessTimelines1 == {<<>>, <<TweetC, TweetC>>}
ProcessTimelines2 == {<<>>, <<TweetABA, TweetABA>>}

NextProcess ==
    \/ create_tweet_texts_by_author(ProcessUsernames, ProcessTimelines1,
                                    ProcessTimelines2, MaxVerifiers)
    \/ divide_questioned_texts_and_known_texts
    \/ create_ngram_count_by_author
    \/ create_each_word_occurrence_rate_by_author
    \/ create_questioned_texts_analysis_result(MaxAnalysisCalls)
    \/ create_known_texts_for_compare_questioned_texts
    \/ compare_author_of_questioned_text_and_known_text
    \/ print_accuracy

SpecProcess == Init /\ [][NextProcess]_vars

\* ------------------------------------------------------------------ claims

RECURSIVE SeqSum(_)
SeqSum(s) == IF s = <<>> THEN 0 ELSE Head(s) + SeqSum(Tail(s))

RECURSIVE RatSum(_)
RatSum(s) == IF s = <<>> THEN RatInt(0) ELSE RatAdd(Head(s), RatSum(Tail(s)))

\* create_questioned_texts_analysis_result has just returned.
Scored == pc = "create_known_texts_for_compare_questioned_texts"

\* The authors of the verifier whose analysis() was called last.
AnalysisNames == verifiers[calls.verifier].author_names

\* The result recorded for the i-th text the last analysis() scored.
ResultOf(i) == questioned_texts_analysis_result[calls.base + i]

\* An author's total unigram count.
TotalUnigramCount(a) == SumValues(ngram_count_by_author[a][1])

\* Sum over n and over every n-gram window of tokens of count(ngram) * 50^(n-1).
NgramTerm(a, tokens) ==
    SeqSum([n \in 1..3 |->
        SeqSum([i \in 1..Max(0, Len(tokens) - n + 1) |->
            Get(ngram_count_by_author[a][n], SubSeq(tokens, i, i + n - 1)) * 50^(n - 1)])])

\* Sum over every token of the author's occurrence rate of it, 0 for a token
\* the table does not hold.
RateTerm(a, tokens) ==
    RatSum([i \in DOMAIN tokens |->
        IF <<tokens[i]>> \in DOMAIN each_word_occurrence_rate_by_author[a]
        THEN each_word_occurrence_rate_by_author[a][<<tokens[i]>>]
        ELSE RatInt(0)])

\* C1: every score computed for a questioned text is, for the first author, the
\* n-gram sum divided by totalUnigramCount(first) / totalUnigramCount(second)
\* plus 100000 times the sum of the first author's occurrence rates of the
\* tokens, and for the second author the n-gram sum, undivided, plus 100000
\* times the sum of the second author's rates; both totals are positive.
C1_ScoreFormula ==
    Scored =>
        \A i \in DOMAIN score_log :
            LET tokens == get_tokenized_text(score_log[i].text)
                first == AnalysisNames[1]
                second == AnalysisNames[2]
                t1 == TotalUnigramCount(first)
                t2 == TotalUnigramCount(second)
            IN /\ t1 > 0 /\ t2 > 0
               /\ ScoreOf(score_log[i].score_dict, first) =
                     RatAdd(RatDiv(RatInt(NgramTerm(first, tokens)), Rat(t1, t2)),
                            RatMul(RatInt(100000), RateTerm(first, tokens)))
               /\ ScoreOf(score_log[i].score_dict, second) =
                     RatAdd(RatInt(NgramTerm(second, tokens)),
                            RatMul(RatInt(100000), RateTerm(second, tokens)))

\* A text with a matching trigram was scored against models of different size,
\* and the second author's n-gram sum is positive too.
C1_Witness ==
    /\ Scored
    /\ \E i \in DOMAIN score_log :
          LET tokens == get_tokenized_text(score_log[i].text)
          IN /\ NgramTerm(AnalysisNames[1], tokens) >= 2500
             /\ NgramTerm(AnalysisNames[2], tokens) > 0
             /\ TotalUnigramCount(AnalysisNames[1]) # TotalUnigramCount(AnalysisNames[2])

\* C2 as stated: the author with the strictly greatest score is predicted, and
\* when the scores are equal or none is positive no author is predicted and the
\* recorded result is incorrect.
C2_NoWinnerOnTie ==
    Scored =>
        \A i \in DOMAIN score_log :
            LET s1 == ScoreOf(score_log[i].score_dict, AnalysisNames[1])
                s2 == ScoreOf(score_log[i].score_dict, AnalysisNames[2])
            IN /\ RatLess(s2, s1) => ResultOf(i)[1] = AnalysisNames[1]
               /\ RatLess(s1, s2) => ResultOf(i)[1] = AnalysisNames[2]
               /\ (s1 = s2 \/ (s1[1] <= 0 /\ s2[1] <= 0)) =>
                     /\ ResultOf(i)[1] \notin Range(AnalysisNames)
                     /\ ResultOf(i)[3] = FALSE

\* C2 amended: the author with the strictly greatest score is predicted; when
\* the scores are equal the first author is predicted; the recorded result
\* holds the text and is correct exactly when the predicted author wrote it.
C2_FirstAuthorOnTie ==
    Scored =>
        \A i \in DOMAIN score_log :
            LET s1 == ScoreOf(score_log[i].score_dict, AnalysisNames[1])
                s2 == ScoreOf(score_log[i].score_dict, AnalysisNames[2])
            IN /\ RatLess(s2, s1) => ResultOf(i)[1] = AnalysisNames[1]
               /\ RatLess(s1, s2) => ResultOf(i)[1] = AnalysisNames[2]
               /\ s1 = s2 => ResultOf(i)[1] = AnalysisNames[1]
               /\ ResultOf(i)[2] = score_log[i].text
               /\ ResultOf(i)[3] = (ResultOf(i)[1] = score_log[i].author)

\* A text of the first author whose tokens neither author has seen scored 0
\* for both and was recorded as correct.
C2_Witness ==
    /\ Scored
    /\ \E i \in DOMAIN score_log :
          /\ get_tokenized_text(score_log[i].text) # <<>>
          /\ ScoreOf(score_log[i].score_dict, AnalysisNames[1]) = RatInt(0)
          /\ ScoreOf(score_log[i].score_dict, AnalysisNames[2]) = RatInt(0)
          /\ score_log[i].author = AnalysisNames[1]
          /\ ResultOf(i)[3] = TRUE

\* C3: once an author's texts are divided, the known and the questioned texts
\* together are as many as the author's texts and hold every text exactly as
\* often as the author's texts do.
C3_SplitComplete ==
    \A a \in DOMAIN known_texts_by_author :
        LET k == known_texts_by_author[a]
            q == questioned_texts_by_author[a]
            t == tweet_texts_by_author[a]
        IN /\ Len(k) + Len(q) = Len(t)
           /\ \A x \in Range(t) \cup Range(k) \cup Range(q) :
                 Occurrences(k, x) + Occurrences(q, x) = Occurrences(t, x)

\* A collection with duplicates was divided and both kinds of text are
\* questioned.
C3_Witness ==
    \E a \in DOMAIN known_texts_by_author :
        /\ Range(questioned_texts_by_author[a]) = {<<"a", " ", "b", " ", "a">>, <<"c">>}
        /\ Occurrences(known_texts_by_author[a], <<"c">>) >= 2

\* C4: len(known) is floor(0.9 * N), the integer k with 10k <= 9N < 10(k + 1),
\* len(questioned) is N - len(known), and known followed by questioned is a
\* permutation of the author's texts.
C4_SplitRatio ==
    \A a \in DOMAIN known_texts_by_author :
        LET k == known_texts_by_author[a]
            q == questioned_texts_by_author[a]
            t == tweet_texts_by_author[a]
        IN /\ 10 * Len(k) <= 9 * Len(t)
           /\ 9 * Len(t) < 10 * (Len(k) + 1)
           /\ Len(q) = Len(t) - Len(k)
           /\ \A x \in Range(t) \cup Range(k \o q) :
                 Occurrences(k \o q, x) = Occurrences(t, x)

\* Eleven texts were divided into nine known and two questioned.
C4_Witness ==
    \E a \in DOMAIN known_texts_by_author :
        /\ Len(tweet_texts_by_author[a]) = 11
        /\ Len(known_texts_by_author[a]) = 9
        /\ Len(questioned_texts_by_author[a]) = 2

\* The tokens of an author's known texts.
Vocabulary(a) ==
    UNION {Range(get_tokenized_text(known_texts_by_author[a][i])) :
              i \in DOMAIN known_texts_by_author[a]}

\* The text of score_log[i] has a token and only tokens of x's known texts, and
\* the known vocabularies of x and y are disjoint and not empty.
SelfSimilar(i, x, y) ==
    LET tokens == get_tokenized_text(score_log[i].text)
    IN /\ Vocabulary(x) # {} /\ Vocabulary(y) # {}
       /\ Vocabulary(x) \cap Vocabulary(y) = {}
       /\ tokens # <<>>
       /\ Range(tokens) \subseteq Vocabulary(x)

\* C5: with disjoint, non-empty known vocabularies, a questioned text made of
\* tokens of one author's vocabulary scores strictly higher for that author and
\* is predicted as that author, be that author the first or the second.
C5_SelfSimilarity ==
    Scored =>
        \A i \in DOMAIN score_log : \A p \in {1, 2} :
            LET x == AnalysisNames[p]
                y == AnalysisNames[3 - p]
            IN SelfSimilar(i, x, y) =>
                  /\ RatLess(ScoreOf(score_log[i].score_dict, y),
                             ScoreOf(score_log[i].score_dict, x))
                  /\ ResultOf(i)[1] = x

\* One analysis scored a text of the first author's vocabulary and a text of
\* the second author's, and the first author's model is the larger one.
C5_Witness ==
    /\ Scored
    /\ TotalUnigramCount(AnalysisNames[1]) > TotalUnigramCount(AnalysisNames[2])
    /\ \E i, j \in DOMAIN score_log :
          /\ SelfSimilar(i, AnalysisNames[1], AnalysisNames[2])
          /\ SelfSimilar(j, AnalysisNames[2], AnalysisNames[1])

\* The number of tokens of an author's known texts.
KnownTokenCount(a) ==
    SeqSum([i \in DOMAIN known_texts_by_author[a] |->
               Len(get_tokenized_text(known_texts_by_author[a][i]))])

\* C6: the counts of an author's unigram table add up to the number of tokens of
\* the author's known texts, and every occurrence rate is the word's count
\* divided by that number.
C6_CountConservation ==
    \A a \in DOMAIN ngram_count_by_author :
        /\ TotalUnigramCount(a) = KnownTokenCount(a)
        /\ a \in DOMAIN each_word_occurrence_rate_by_author =>
              \A w \in DOMAIN each_word_occurrence_rate_by_author[a] :
                 each_word_occurrence_rate_by_author[a][w][1] * KnownTokenCount(a)
                    = Get(ngram_count_by_author[a][1], w)
                         * each_word_occurrence_rate_by_author[a][w][2]

\* The rates of an author with nine or more known texts, one of them of several
\* tokens, and with a questioned text that has tokens, are built.
C6_Witness ==
    \E a \in DOMAIN each_word_occurrence_rate_by_author :
        /\ Len(known_texts_by_author[a]) >= 9
        /\ KnownTokenCount(a) > Len(known_texts_by_author[a])
        /\ \E i \in DOMAIN questioned_texts_by_author[a] :
              get_tokenized_text(questioned_texts_by_author[a][i]) # <<>>

\* analysis() is running or has raised.
InAnalysis ==
    pc \in {"create_known_texts_for_compare_questioned_texts",
            "compare_author_of_questioned_text_and_known_text",
            "print_accuracy", "raised"}

C8_InsufficientDataRaised ==
    \A a \in DOMAIN ngram_count_by_author : known_texts_by_author[a] # <<>>

\* The paired sample, once it is drawn, has total_questioned_text_cnt pairs and
\* holds no pair more often than the known texts of the two authors do.
SampleDrawn ==
    pc \in {"compare_author_of_questioned_text_and_known_text", "print_accuracy"} =>
        LET s == verifiers[self].known_texts_for_compare_questioned_texts
            pool == known_texts_info(verifiers[self].author_names)
        IN /\ Len(s) = total_questioned_text_cnt
           /\ \A x \in Range(s) : Occurrences(s, x) <= Occurrences(pool, x)

\* The known texts of the two authors are fewer than the questioned texts.
PoolTooSmall ==
    /\ calls.started > 0
    /\ InAnalysis
    /\ Len(known_texts_info(AnalysisNames)) < total_questioned_text_cnt

C10_ResultPerQuestionedText ==
    /\ pc = "print_accuracy" =>
          LET names == verifiers[self].author_names
              own == Len(questioned_texts_by_author[names[1]])
                        + Len(questioned_texts_by_author[names[2]])
          IN /\ Len(questioned_texts_analysis_result) = own
             /\ total_questioned_text_cnt = own
    /\ \A i \in DOMAIN stdout.accuracy : stdout.accuracy[i][1] <= stdout.accuracy[i][2]

====
